---- MODULE Spec2Model ----
(***************************************************************************)
(* The 15-puzzle of src/main.rs as a state machine: the Puzzle struct      *)
(* (tiles, moves), its operations (default, find_empty,                    *)
(* is_adjacent_to_empty, move_tile, shuffle, is_solved) and the event      *)
(* handler update, driven by the two Message variants.                     *)
(***************************************************************************)
EXTENDS Integers, Sequences, FiniteSets, TLC

(* ----------------------------- constants ------------------------------- *)

\* const GRID_SIZE: usize = 4;
GRID_SIZE == 4

\* Mutant of ShuffleIterations: one iteration fewer.
ShuffleIterations_one_less == 100 - 1

\* for _ in 0..100 : the number of iterations of the shuffle loop
ShuffleIterations == 100

\* Bound: the move counter is kept at or below MaxMoves by the guard of
\* TilePressed (it is a u32 in the program).
MaxMoves == 3

\* Bound: the number of legal moves within which the solvability search of
\* C8 looks for the solved layout.
SolveDepth == 5

\* Bound: the draws of the random generator are enumerated for the last
\* FreeDraws iterations of the shuffle loop; in the iterations before, the
\* generator is taken to return 0.
FreeDraws == 2

\* Bound: moves is a u32 (struct Puzzle); the model keeps the counter in
\* MovesBits bits, so that its maximum MovesLimit is a number the model
\* checker can hold. The shuffle loop counts to ShuffleIterations, which fits.
MovesBits == 7

\* The largest value of the counter (u32::MAX in the program).
MovesLimit == 2 ^ MovesBits - 1

Idx == 0 .. (GRID_SIZE - 1)

Abs(x) == IF x < 0 THEN -x ELSE x

(* ------------------------------- Tile ---------------------------------- *)

\* Option<T> is modelled as a sequence of length at most one:
\* None is << >> and Some(v) is << v >>.
None == << >>
Some(v) == << v >>

\* Tile { value: Option<u8> }
Tile_empty == [value |-> None]
Tile_new(value) == [value |-> Some(value)]
is_empty(tile) == tile.value = None

(* ------------------------------ Puzzle --------------------------------- *)

\* The loop nest of Puzzle::default, cell k = i * GRID_SIZE + j in the
\* order the loops visit it, with the running `value`.
RECURSIVE default_fill(_, _, _)
default_fill(t, k, value) ==
    IF k = GRID_SIZE * GRID_SIZE
    THEN t
    ELSE LET i == k \div GRID_SIZE
             j == k % GRID_SIZE
         IN  IF i = GRID_SIZE - 1 /\ j = GRID_SIZE - 1
             THEN default_fill([t EXCEPT ![i][j] = Tile_empty], k + 1, value)
             ELSE default_fill([t EXCEPT ![i][j] = Tile_new(value)], k + 1, value + 1)

\* Mutant of Puzzle_default: the empty tile is put in the first cell and the
\* numbers 1.. in the cells after it.
Puzzle_default_empty_first ==
    [tiles |-> [i \in Idx |-> [j \in Idx |->
                   IF i = 0 /\ j = 0 THEN Tile_empty ELSE Tile_new(i * GRID_SIZE + j)]],
     moves |-> 0]

Puzzle_default ==
    [tiles |-> default_fill([i \in Idx |-> [j \in Idx |-> Tile_empty]], 0, 1),
     moves |-> 0]

\* The row-major scan of find_empty from cell k on: the first empty cell.
RECURSIVE find_empty_from(_, _)
find_empty_from(self, k) ==
    IF k = GRID_SIZE * GRID_SIZE
    THEN None
    ELSE LET i == k \div GRID_SIZE
             j == k % GRID_SIZE
         IN  IF is_empty(self.tiles[i][j])
             THEN Some(<<i, j>>)
             ELSE find_empty_from(self, k + 1)

find_empty(self) == find_empty_from(self, 0)

\* Mutant of is_adjacent_to_empty: the differences are compared with 1
\* without .abs(), so only the cell right of or below the empty cell passes.
is_adjacent_to_empty_no_abs(self, row, col) ==
    LET e == find_empty(self)
    IN  IF e # None
        THEN \/ (row = e[1][1] /\ col - e[1][2] = 1)
             \/ (col = e[1][2] /\ row - e[1][1] = 1)
        ELSE FALSE

is_adjacent_to_empty(self, row, col) ==
    LET e == find_empty(self)
    IN  IF e # None
        THEN LET empty_row == e[1][1]
                 empty_col == e[1][2]
             IN  \/ (row = empty_row /\ Abs(col - empty_col) = 1)
                 \/ (col = empty_col /\ Abs(row - empty_row) = 1)
        ELSE FALSE

\* Mutant of move_tile: temp is not written back to the former empty cell.
move_tile_lost_write(self, row, col) ==
    LET e == find_empty(self)
    IN  IF is_adjacent_to_empty(self, row, col) /\ e # None
        THEN [self |-> [tiles |-> [self.tiles EXCEPT ![row][col] = self.tiles[e[1][1]][e[1][2]]],
                        moves |-> self.moves + 1],
              ret |-> TRUE, overflow |-> FALSE]
        ELSE [self |-> self, ret |-> FALSE, overflow |-> FALSE]

\* Mutant of move_tile: the counter is incremented before the adjacency test.
move_tile_count_always(self, row, col) ==
    LET e == find_empty(self)
    IN  IF is_adjacent_to_empty(self, row, col) /\ e # None
        THEN LET t1 == [self.tiles EXCEPT ![row][col] = self.tiles[e[1][1]][e[1][2]]]
                 t2 == [t1 EXCEPT ![e[1][1]][e[1][2]] = self.tiles[row][col]]
             IN  [self |-> [tiles |-> t2, moves |-> self.moves + 1], ret |-> TRUE, overflow |-> FALSE]
        ELSE [self |-> [self EXCEPT !.moves = self.moves + 1], ret |-> FALSE, overflow |-> FALSE]

\* Mutant of move_tile: the exchange is made and the counter is left alone.
move_tile_no_count(self, row, col) ==
    LET e == find_empty(self)
    IN  IF is_adjacent_to_empty(self, row, col) /\ e # None
        THEN LET t1 == [self.tiles EXCEPT ![row][col] = self.tiles[e[1][1]][e[1][2]]]
                 t2 == [t1 EXCEPT ![e[1][1]][e[1][2]] = self.tiles[row][col]]
             IN  [self |-> [tiles |-> t2, moves |-> self.moves], ret |-> TRUE, overflow |-> FALSE]
        ELSE [self |-> self, ret |-> FALSE, overflow |-> FALSE]

\* Mutant of move_tile: each cell is assigned its own content, so nothing is
\* exchanged, and the move is still counted.
move_tile_no_exchange(self, row, col) ==
    LET e == find_empty(self)
    IN  IF is_adjacent_to_empty(self, row, col) /\ e # None
        THEN [self |-> [tiles |-> self.tiles, moves |-> self.moves + 1], ret |-> TRUE, overflow |-> FALSE]
        ELSE [self |-> self, ret |-> FALSE, overflow |-> FALSE]

\* Mutant of move_tile: temp is written to [empty_col][empty_row], the
\* indices of the empty cell exchanged.
move_tile_transposed_write(self, row, col) ==
    LET e == find_empty(self)
    IN  IF is_adjacent_to_empty(self, row, col) /\ e # None
        THEN LET t1 == [self.tiles EXCEPT ![row][col] = self.tiles[e[1][1]][e[1][2]]]
                 t2 == [t1 EXCEPT ![e[1][2]][e[1][1]] = self.tiles[row][col]]
             IN  [self |-> [tiles |-> t2, moves |-> self.moves + 1], ret |-> TRUE, overflow |-> FALSE]
        ELSE [self |-> self, ret |-> FALSE, overflow |-> FALSE]

\* move_tile(&mut self, row, col) -> bool : the puzzle afterwards and the
\* value returned. self.moves += 1 is the last statement before return true,
\* after the three assignments of the swap. `overflow` tells that the
\* addition overflowed the counter: a build without overflow checks then
\* wraps, which is the `moves` given here; a build with overflow checks
\* panics at that statement, with the swap made and moves as it was.
move_tile(self, row, col) ==
    LET e == find_empty(self)
    IN  IF is_adjacent_to_empty(self, row, col) /\ e # None
        THEN LET empty_row == e[1][1]
                 empty_col == e[1][2]
                 temp == self.tiles[row][col]
                 t1 == [self.tiles EXCEPT ![row][col] = self.tiles[empty_row][empty_col]]
                 t2 == [t1 EXCEPT ![empty_row][empty_col] = temp]
             IN  [self |-> [tiles |-> t2, moves |-> (self.moves + 1) % (MovesLimit + 1)],
                  ret |-> TRUE,
                  overflow |-> (self.moves = MovesLimit)]
        ELSE [self |-> self, ret |-> FALSE, overflow |-> FALSE]

\* Mutant of valid_moves: the candidate below the empty cell is never pushed.
valid_moves_no_down(empty_row, empty_col) ==
    (IF empty_row > 0 THEN << <<empty_row - 1, empty_col>> >> ELSE << >>)
    \o (IF empty_col > 0 THEN << <<empty_row, empty_col - 1>> >> ELSE << >>)
    \o (IF empty_col < GRID_SIZE - 1 THEN << <<empty_row, empty_col + 1>> >> ELSE << >>)

\* The candidate list built by one iteration of the shuffle loop.
valid_moves(empty_row, empty_col) ==
    (IF empty_row > 0 THEN << <<empty_row - 1, empty_col>> >> ELSE << >>)
    \o (IF empty_row < GRID_SIZE - 1 THEN << <<empty_row + 1, empty_col>> >> ELSE << >>)
    \o (IF empty_col > 0 THEN << <<empty_row, empty_col - 1>> >> ELSE << >>)
    \o (IF empty_col < GRID_SIZE - 1 THEN << <<empty_row, empty_col + 1>> >> ELSE << >>)

\* Mutant of gen_range: the range is 0..=len, one index too many.
gen_range_inclusive(i, len) ==
    IF i < ShuffleIterations - FreeDraws THEN {0} ELSE 0 .. len

\* rng.gen_range(0..len) in iteration i: any index below len.
gen_range(i, len) ==
    IF i < ShuffleIterations - FreeDraws THEN {0} ELSE 0 .. (len - 1)

\* One iteration of the shuffle loop from puzzle self when the generator
\* returns d: valid_moves.get(d) is a candidate when d is below the length
\* of the list, and then move_tile is called with it.
shuffle_iteration_drawn(self, d) ==
    LET e == find_empty(self)
    IN  IF e # None
        THEN LET vm == valid_moves(e[1][1], e[1][2])
             IN  IF d < Len(vm)
                 THEN move_tile(self, vm[d + 1][1], vm[d + 1][2]).self
                 ELSE self
        ELSE self

\* One iteration (number i) of the shuffle loop from puzzle self: the set of
\* puzzles it can leave, over the draw of the generator.
shuffle_iteration(self, i) ==
    LET e == find_empty(self)
    IN  IF e # None
        THEN { shuffle_iteration_drawn(self, d) :
                  d \in gen_range(i, Len(valid_moves(e[1][1], e[1][2]))) }
        ELSE {self}

\* The n iterations i, i+1, ..., i+n-1 of the shuffle loop from any puzzle
\* of the set S: the set of puzzles they can leave. The iterations are run
\* in order, the first half of them before the second, which keeps the
\* evaluation shallow; the test on T makes the evaluator compute the set the
\* first half leaves before it goes on (T is never empty).
RECURSIVE shuffle_loop(_, _, _)
shuffle_loop(S, i, n) ==
    IF n = 0
    THEN S
    ELSE IF n = 1
         THEN UNION { shuffle_iteration(self, i) : self \in S }
         ELSE LET h == n \div 2
                  T == shuffle_loop(S, i, h)
              IN  IF T = {} THEN {} ELSE shuffle_loop(T, i + h, n - h)

\* The pairs <<k, p>> of an iteration k of i, ..., i+n-1 and a puzzle p that
\* the shuffle loop, run from a puzzle of S at iteration i, can be in when
\* iteration k begins.
RECURSIVE shuffle_loop_states(_, _, _)
shuffle_loop_states(S, i, n) ==
    IF n = 0
    THEN {}
    ELSE IF n = 1
         THEN { <<i, self>> : self \in S }
         ELSE LET h == n \div 2
                  T == shuffle_loop(S, i, h)
              IN  IF T = {}
                  THEN {}
                  ELSE shuffle_loop_states(S, i, h) \cup shuffle_loop_states(T, i + h, n - h)

\* The puzzles the shuffle loop can end in when it starts from the default
\* puzzle, over the draws.
shuffle_loop_from_default == shuffle_loop({Puzzle_default}, 0, ShuffleIterations)

\* The puzzle the shuffle loop is in, from the default puzzle, when the last
\* FreeDraws iterations begin (a set of one puzzle: the draws before are 0).
shuffle_loop_before_free_draws ==
    shuffle_loop({Puzzle_default}, 0, ShuffleIterations - FreeDraws)

\* The iterations of the shuffle loop from puzzle self in which the
\* generator returns draws[k], draws[k+1], ...: << q >> for the puzzle q they
\* leave, or << >> when a draw is not below the length of the candidate list
\* (gen_range returns no such index).
RECURSIVE shuffle_loop_drawn(_, _, _)
shuffle_loop_drawn(self, draws, k) ==
    IF k > Len(draws)
    THEN << self >>
    ELSE LET e == find_empty(self)
         IN  IF e # None /\ draws[k] >= Len(valid_moves(e[1][1], e[1][2]))
             THEN << >>
             ELSE shuffle_loop_drawn(shuffle_iteration_drawn(self, draws[k]), draws, k + 1)

\* shuffle(&mut self) when the generator returns 0 in every iteration before
\* the last FreeDraws and draws[1], draws[2], ... in those: << q >> for the
\* puzzle q it leaves. As in shuffle, self is overwritten by the first
\* statement and moves is set to 0 by the last.
shuffle_drawn(self, draws) ==
    LET reset == CHOOSE p \in shuffle_loop_before_free_draws : TRUE
        r == shuffle_loop_drawn(reset, draws, 1)
    IN  IF r = << >> THEN << >> ELSE << [r[1] EXCEPT !.moves = 0] >>

\* Mutant of shuffle: self is not reset, the loop runs from the puzzle as it
\* is.
shuffle_no_reset(self) ==
    { [q EXCEPT !.moves = 0] : q \in shuffle_loop({self}, 0, ShuffleIterations) }

\* Mutant of shuffle: the counter is not reset after the loop.
shuffle_keep_count(self) == shuffle_loop_from_default

\* shuffle(&mut self): the puzzles it can leave, over the draws. The first
\* statement, *self = Self::default(), overwrites the whole of self, so the
\* loop runs from the default puzzle whatever self was; the last statement
\* sets moves to 0.
shuffle(self) ==
    { [q EXCEPT !.moves = 0] : q \in shuffle_loop_from_default }

\* The loop nest of is_solved from cell k on, with the running expected_value.
RECURSIVE is_solved_from(_, _, _)
is_solved_from(self, k, expected_value) ==
    IF k = GRID_SIZE * GRID_SIZE
    THEN TRUE
    ELSE LET i == k \div GRID_SIZE
             j == k % GRID_SIZE
         IN  IF i = GRID_SIZE - 1 /\ j = GRID_SIZE - 1
             THEN IF ~ is_empty(self.tiles[i][j])
                  THEN FALSE
                  ELSE is_solved_from(self, k + 1, expected_value)
             ELSE IF self.tiles[i][j].value # Some(expected_value)
                  THEN FALSE
                  ELSE is_solved_from(self, k + 1, expected_value + 1)

\* Mutant of is_solved: the last row is not looked at.
is_solved_skip_last_row(self) ==
    \A i \in 0 .. (GRID_SIZE - 2) : \A j \in Idx :
        self.tiles[i][j].value = Some(i * GRID_SIZE + j + 1)

is_solved(self) == is_solved_from(self, 0, 1)

\* enum Message
TilePressedMsg(row, col) == [kind |-> "TilePressed", row |-> row, col |-> col]
ShuffleMsg == [kind |-> "Shuffle", row |-> 0, col |-> 0]

\* Mutant of update: a solved puzzle takes no more messages.
update_won_blocks(self, message) ==
    IF is_solved(self)
    THEN {self}
    ELSE IF message.kind = "TilePressed"
         THEN { move_tile(self, message.row, message.col).self }
         ELSE shuffle(self)

\* update(&mut self, message): the puzzles it can leave.
update(self, message) ==
    IF message.kind = "TilePressed"
    THEN { move_tile(self, message.row, message.col).self }
    ELSE shuffle(self)

\* Mutant of view_buttons: the button of the empty cell gets on_press too.
view_buttons_all_cells(self) ==
    { TilePressedMsg(i, j) : i \in Idx, j \in Idx } \cup {ShuffleMsg}

\* The messages the tree built by view can raise: the button of cell (i, j)
\* has on_press(Message::TilePressed(i, j)) unless the tile is empty, and the
\* "Shuffle" button has on_press(Message::Shuffle).
view_buttons(self) ==
    { TilePressedMsg(c[1], c[2]) :
         c \in { x \in Idx \X Idx : ~ is_empty(self.tiles[x[1]][x[2]]) } }
    \cup {ShuffleMsg}

\* Mutant of view_status: the solved text is shown only once a move was made.
view_status_after_moves(self) ==
    IF is_solved(self) /\ self.moves > 0
    THEN << "Puzzle Solved!" >>
    ELSE << "Moves: ", self.moves >>

\* status_text of view: the solved text, or format!("Moves: {}", self.moves).
view_status(self) ==
    IF is_solved(self)
    THEN << "Puzzle Solved!" >>
    ELSE << "Moves: ", self.moves >>

\* view(&self): what of the element tree the properties look at.
view(self) == [buttons |-> view_buttons(self), status |-> view_status(self)]

\* move_tile(row, col) indexes self.tiles outside the grid (and panics): it
\* reaches self.tiles[row][col] when the adjacency test, which is arithmetic
\* on the coordinates alone, passes.
move_tile_out_of_bounds(self, row, col) ==
    /\ is_adjacent_to_empty(self, row, col)
    /\ (row \notin Idx \/ col \notin Idx)

(* --------------------------- state machine ----------------------------- *)

VARIABLES
    tiles,    \* Puzzle.tiles
    moves,    \* Puzzle.moves
    last,     \* history: the last message handled and what move_tile returned
    prev,     \* history: the puzzle before the last message
    panicked, \* update panicked: the process is gone and takes no more messages
    screen    \* what view returned when the runtime last called it

vars == <<tiles, moves, last, prev, panicked, screen>>

puzzle == [tiles |-> tiles, moves |-> moves]

Init ==
    /\ tiles = Puzzle_default.tiles
    /\ moves = Puzzle_default.moves
    /\ last = [kind |-> "none", row |-> 0, col |-> 0, ret |-> FALSE, undo |-> FALSE]
    /\ prev = Puzzle_default
    /\ panicked = FALSE
    /\ screen = view(Puzzle_default)

\* update(Message::TilePressed(row, col)), then view
TilePressed(row, col) ==
    LET m == move_tile(puzzle, row, col)
    IN  /\ ~ panicked
        /\ ~ m.overflow
        /\ m.self.moves <= MaxMoves
        /\ \E q \in update(puzzle, TilePressedMsg(row, col)) :
              /\ tiles' = q.tiles
              /\ moves' = q.moves
        /\ last' = [kind |-> "TilePressed", row |-> row, col |-> col, ret |-> m.ret,
                    undo |-> /\ last.kind = "TilePressed"
                             /\ last.ret
                             /\ find_empty(prev) = Some(<<row, col>>)]
        /\ prev' = puzzle
        /\ panicked' = FALSE
        /\ screen' = view([tiles |-> tiles', moves |-> moves'])

\* update(Message::Shuffle), then view
Shuffle ==
    /\ ~ panicked
    /\ \E q \in update(puzzle, ShuffleMsg) :
          /\ tiles' = q.tiles
          /\ moves' = q.moves
    /\ last' = [kind |-> "Shuffle", row |-> 0, col |-> 0, ret |-> FALSE, undo |-> FALSE]
    /\ prev' = puzzle
    /\ panicked' = FALSE
    /\ screen' = view([tiles |-> tiles', moves |-> moves'])

Next ==
    \/ \E row \in Idx, col \in Idx : TilePressed(row, col)
    \/ Shuffle

Spec == Init /\ [][Next]_vars

(* ------------------------- the event loop ------------------------------ *)

\* iced::run(Puzzle::update, Puzzle::view): the runtime hands update a
\* message that a button of the tree on screen raises, then calls view again.
NextUI ==
    \/ \E msg \in screen.buttons :
          msg.kind = "TilePressed" /\ TilePressed(msg.row, msg.col)
    \/ \E msg \in screen.buttons :
          msg.kind = "Shuffle" /\ Shuffle

SpecUI == Init /\ [][NextUI]_vars

(* ---------------- the state machine at the counter's maximum ----------- *)

\* The puzzle after MovesLimit - 1 successful moves that went back and forth
\* between the last two cells of the last row (an even number of them): the
\* default layout, with the counter one below its maximum.
InitNearMax ==
    /\ tiles = Puzzle_default.tiles
    /\ moves = MovesLimit - 1
    /\ last = [kind |-> "none", row |-> 0, col |-> 0, ret |-> FALSE, undo |-> FALSE]
    /\ prev = [tiles |-> Puzzle_default.tiles, moves |-> MovesLimit - 1]
    /\ panicked = FALSE
    /\ screen = view([tiles |-> Puzzle_default.tiles, moves |-> MovesLimit - 1])

\* update(Message::TilePressed(row, col)) with the counter at or one below
\* its maximum, when the addition does not overflow.
TilePressedNearMax(row, col) ==
    LET m == move_tile(puzzle, row, col)
    IN  /\ ~ panicked
        /\ ~ m.overflow
        /\ moves >= MovesLimit - 1
        /\ \E q \in update(puzzle, TilePressedMsg(row, col)) :
              /\ tiles' = q.tiles
              /\ moves' = q.moves
        /\ last' = [kind |-> "TilePressed", row |-> row, col |-> col, ret |-> m.ret,
                    undo |-> FALSE]
        /\ prev' = puzzle
        /\ panicked' = FALSE
        /\ screen' = view([tiles |-> tiles', moves |-> moves'])

\* update(Message::TilePressed(row, col)) when self.moves += 1 overflows, in
\* a build without overflow checks (cargo's release profile): the counter
\* wraps to 0 and move_tile returns true.
TilePressedWrap(row, col) ==
    LET m == move_tile(puzzle, row, col)
    IN  /\ ~ panicked
        /\ m.overflow
        /\ tiles' = m.self.tiles
        /\ moves' = m.self.moves
        /\ last' = [kind |-> "TilePressed", row |-> row, col |-> col, ret |-> TRUE,
                    undo |-> FALSE]
        /\ prev' = puzzle
        /\ panicked' = FALSE
        /\ screen' = view([tiles |-> tiles', moves |-> moves'])

\* update(Message::TilePressed(row, col)) when self.moves += 1 overflows, in
\* a build with overflow checks (cargo's dev profile): the statement panics.
\* The swap of lines 86-88 is made, moves is as it was, nothing is returned.
TilePressedPanic(row, col) ==
    LET m == move_tile(puzzle, row, col)
    IN  /\ ~ panicked
        /\ m.overflow
        /\ tiles' = m.self.tiles
        /\ moves' = moves
        /\ last' = [kind |-> "TilePressed", row |-> row, col |-> col, ret |-> FALSE,
                    undo |-> FALSE]
        /\ prev' = puzzle
        /\ panicked' = TRUE
        /\ screen' = screen

NextOverflow ==
    \/ Next
    \/ \E row \in Idx, col \in Idx : TilePressedNearMax(row, col)
    \/ \E row \in Idx, col \in Idx : TilePressedWrap(row, col)
    \/ \E row \in Idx, col \in Idx : TilePressedPanic(row, col)

SpecOverflow == InitNearMax /\ [][NextOverflow]_vars

(* ------------------- definitions the properties use -------------------- *)

Cells == Idx \X Idx

\* The cells of grid t that hold no number.
EmptyCells(t) == { c \in Cells : t[c[1]][c[2]].value = None }

\* The cells of grid t that hold the number v.
CellsWith(t, v) == { c \in Cells : t[c[1]][c[2]].value = Some(v) }

\* One empty cell, and each of 1 .. N*N-1 in exactly one cell.
IsPermutation(t) ==
    /\ Cardinality(EmptyCells(t)) = 1
    /\ \A v \in 1 .. (GRID_SIZE * GRID_SIZE - 1) : Cardinality(CellsWith(t, v)) = 1

\* Four-directional neighbours on the grid: one step up, down, left or right.
FourAdjacent(a, b) == Abs(a[1] - b[1]) + Abs(a[2] - b[2]) = 1

\* Cell c is a four-directional neighbour of a cell of the set E.
NextTo(E, c) == \E e \in E : FourAdjacent(c, e)

\* Cell c is a four-directional neighbour of an empty cell of grid t.
NextToEmpty(t, c) == NextTo(EmptyCells(t), c)

\* Row-major 1 .. N*N-1 with the empty tile in the last cell.
CanonicalLayout ==
    [i \in Idx |-> [j \in Idx |->
        IF i = GRID_SIZE - 1 /\ j = GRID_SIZE - 1
        THEN [value |-> << >>]
        ELSE [value |-> << i * GRID_SIZE + j + 1 >>]]]

\* The puzzles one legal move_tile call leads to from a puzzle of S.
LegalSuccessors(S) ==
    UNION { { move_tile(p, c[1], c[2]).self : c \in { x \in Cells : move_tile(p, x[1], x[2]).ret } } :
            p \in S }

\* Some puzzle of S reaches a solved puzzle by at most d legal moves.
RECURSIVE CanReachSolved(_, _)
CanReachSolved(S, d) ==
    \/ \E p \in S : is_solved(p)
    \/ /\ d > 0
       /\ LET T == LegalSuccessors(S)
          IN  T # {} /\ CanReachSolved(T, d - 1)

\* The puzzles a shuffle can leave from which at most SolveDepth legal moves
\* reach a solved puzzle.
SolvableShuffled ==
    { q \in shuffle(Puzzle_default) : CanReachSolved({q}, SolveDepth) }

lastCell == <<last.row, last.col>>

(* ------------------------------ claims --------------------------------- *)

\* C1: in every reachable state exactly one cell holds the empty tile and
\* each of the values 1 .. N*N-1 is held by exactly one cell; find_empty
\* does not return None.
C1_PermutationInvariant ==
    /\ IsPermutation(tiles)
    /\ find_empty(puzzle) # None

\* C1 witness: a successful move made after a shuffle, on a board that is
\* not the solved one.
C1_Witness ==
    /\ last.kind = "TilePressed" /\ last.ret
    /\ tiles # CanonicalLayout
    /\ prev.tiles # CanonicalLayout
    /\ moves = 1

\* C2: move_tile(row, col) returns true exactly when (row, col) is a
\* four-directional neighbour of the empty cell, for every cell of every
\* reachable board and for every move that was made; it returns false for
\* the empty cell itself.
C2_MoveLegality ==
    /\ LET E == EmptyCells(tiles)
       IN  \A c \in Cells :
              LET ret == move_tile(puzzle, c[1], c[2]).ret
              IN  /\ ret <=> NextTo(E, c)
                  /\ c \in E => ~ ret
    /\ last.kind = "TilePressed" =>
          /\ last.ret <=> NextToEmpty(prev.tiles, lastCell)
          /\ lastCell \in EmptyCells(prev.tiles) => ~ last.ret

\* C2 witness: a press of the empty cell itself, which returned false, on a
\* board whose empty cell is not in a corner.
C2_Witness ==
    /\ last.kind = "TilePressed" /\ ~ last.ret
    /\ lastCell \in EmptyCells(prev.tiles)
    /\ last.row \in 1 .. (GRID_SIZE - 2)

\* C3: a move_tile call that returns true adds exactly 1 to the counter, one
\* that returns false leaves it as it was, and a shuffle sets it to 0: the
\* counter changes in no other way.
C3_CounterSteps ==
    /\ (last.kind = "TilePressed" /\ last.ret) => moves = prev.moves + 1
    /\ (last.kind = "TilePressed" /\ ~ last.ret) => moves = prev.moves
    /\ last.kind = "Shuffle" => moves = 0
    /\ last.kind = "none" => moves = 0

\* C3 witness: a failed move attempt on a counter that earlier moves raised.
C3_Witness ==
    /\ last.kind = "TilePressed" /\ ~ last.ret
    /\ prev.moves >= 2
    /\ moves = prev.moves

\* C4: right after shuffle the counter is 0, whatever board and counter
\* the shuffle started from; none of the swaps of its loop is counted.
C4_ShuffleZeroesCounter ==
    /\ last.kind = "Shuffle" => moves = 0
    /\ \A q \in shuffle(puzzle) : q.moves = 0

\* C4 witness: a shuffle of a board that was not solved and had a counter
\* above 0.
C4_Witness ==
    /\ last.kind = "Shuffle"
    /\ prev.moves > 0
    /\ prev.tiles # CanonicalLayout
    /\ moves = 0

\* C5: is_solved is true exactly on the canonical layout, whatever the move
\* counter is; it is true of the state after construction.
C5_SolvedIffCanonical ==
    /\ \A m \in 0 .. MaxMoves :
          is_solved([tiles |-> tiles, moves |-> m]) <=> (tiles = CanonicalLayout)
    /\ last.kind = "none" => is_solved(puzzle)

\* C5 witness: moves brought the board back to the canonical layout.
C5_Witness ==
    /\ last.kind = "TilePressed" /\ last.ret
    /\ moves > 0
    /\ prev.tiles # CanonicalLayout
    /\ is_solved(puzzle)

C7_IllegalMoveNoOp ==
    /\ LET E == EmptyCells(tiles)
       IN  \A c \in Cells :
              ~ NextTo(E, c) =>
                  /\ update(puzzle, TilePressedMsg(c[1], c[2])) = {puzzle}
                  /\ move_tile(puzzle, c[1], c[2]) = [self |-> puzzle, ret |-> FALSE, overflow |-> FALSE]
    /\ (last.kind = "TilePressed" /\ ~ NextToEmpty(prev.tiles, lastCell)) =>
          /\ tiles = prev.tiles
          /\ moves = prev.moves
          /\ ~ last.ret

\* C7 witness: a press of a cell diagonal to the empty cell, on a counter
\* above 0.
C7_Witness ==
    /\ last.kind = "TilePressed"
    /\ \E e \in EmptyCells(prev.tiles) :
          Abs(last.row - e[1]) = 1 /\ Abs(last.col - e[2]) = 1
    /\ prev.moves > 0
    /\ tiles = prev.tiles /\ moves = prev.moves

C9_ShuffleMaySolve ==
    /\ \E q \in update(puzzle, ShuffleMsg) : is_solved(q)
    /\ last.kind = "Shuffle" => IsPermutation(tiles) /\ moves = 0

\* C9 witness: a shuffle of an unsolved board left the solved board.
C9_Witness ==
    /\ last.kind = "Shuffle"
    /\ ~ is_solved(prev)
    /\ is_solved(puzzle)
    /\ moves = 0

\* C10: in a solved state a TilePressed on a neighbour of the empty cell
\* moves that tile and adds 1 to the counter, and a Shuffle has the outcomes
\* it has from the state before, solved or not.
C10_NoWonMode ==
    /\ is_solved(puzzle) =>
          /\ \A c \in Cells :
                NextToEmpty(tiles, c) =>
                    \A q \in update(puzzle, TilePressedMsg(c[1], c[2])) :
                        /\ q.tiles # tiles
                        /\ q.tiles[c[1]][c[2]] = Tile_empty
                        /\ q.moves = moves + 1
          /\ update(puzzle, ShuffleMsg) = shuffle(Puzzle_default)
          /\ \E q \in update(puzzle, ShuffleMsg) : q.tiles # tiles
    /\ (is_solved(prev) /\ last.kind = "TilePressed" /\ last.ret) =>
          tiles # prev.tiles /\ moves = prev.moves + 1
    /\ (is_solved(prev) /\ last.kind = "Shuffle") =>
          moves = 0 /\ puzzle \in shuffle(Puzzle_default)

\* C10 witness: a tile was moved out of a board that moves had solved.
C10_Witness ==
    /\ last.kind = "TilePressed" /\ last.ret
    /\ is_solved(prev)
    /\ prev.moves > 0
    /\ tiles # prev.tiles

\* C10 witness of the other message: a shuffle of a board that moves had
\* solved left an unsolved board.
C10_ShuffleWitness ==
    /\ last.kind = "Shuffle"
    /\ is_solved(prev)
    /\ prev.moves > 0
    /\ ~ is_solved(puzzle)

\* C11: move_tile on an in-range cell, whatever the counter is (its maximum
\* included), ends without a fault, and either makes the swap and adds 1 to
\* the counter or changes nothing.
C11_AtomicAndTotal ==
    /\ ~ panicked
    /\ last.kind = "TilePressed" =>
          \/ tiles = prev.tiles /\ moves = prev.moves
          \/ tiles # prev.tiles /\ moves = prev.moves + 1

\* What shuffle's loop can be in at the start of each of its iterations.
ShuffleLoopStates == shuffle_loop_states({Puzzle_default}, 0, ShuffleIterations)

\* The candidate list the shuffle loop builds from puzzle p.
Candidates(p) ==
    LET e == find_empty(p)
    IN  IF e = None THEN << >> ELSE valid_moves(e[1][1], e[1][2])

\* The candidate list of p has 2 to 4 entries, each a cell of the grid next
\* to the empty cell, for which move_tile returns true.
CandidatesAllLegal(p) ==
    LET vm == Candidates(p)
    IN  /\ Len(vm) \in 2 .. 4
        /\ \A k \in 1 .. Len(vm) :
              /\ vm[k] \in Cells
              /\ NextToEmpty(p.tiles, vm[k])
              /\ move_tile(p, vm[k][1], vm[k][2]).ret

\* Every iteration of shuffle's loop begins with as many swaps made as
\* iterations done and with a candidate list that is all legal; the
\* iterations are 0 .. ShuffleIterations-1, and the loop ends with the
\* counter at ShuffleIterations.
ShuffleLoopAllLegal ==
    /\ \A s \in ShuffleLoopStates : s[2].moves = s[1] /\ CandidatesAllLegal(s[2])
    /\ { s[1] : s \in ShuffleLoopStates } = 0 .. (ShuffleIterations - 1)
    /\ \A q \in shuffle_loop_from_default : q.moves = ShuffleIterations

\* C12: every iteration of the shuffle loop begins with as many swaps made as
\* iterations done, has 2 to 4 candidates, all on the grid and next to the
\* empty cell, and move_tile returns true for each; the loop ends after
\* ShuffleIterations iterations with the counter at ShuffleIterations, and
\* shuffle has an outcome from every reachable state.
C12_ShuffleLoop ==
    /\ ShuffleLoopAllLegal
    /\ shuffle(puzzle) # {}
    /\ CandidatesAllLegal(puzzle)

\* C12 witness: a shuffle was made, and its loop met candidate lists of 2, of
\* 3 and of 4 entries.
C12_Witness ==
    /\ last.kind = "Shuffle"
    /\ puzzle \in shuffle(prev)
    /\ \A n \in 2 .. 4 : \E s \in ShuffleLoopStates : Len(Candidates(s[2])) = n

\* Grid t2 is grid t1 with the contents of cells a and b exchanged and every
\* other cell as it was.
ExchangedExactly(t1, t2, a, b) ==
    /\ t2[a[1]][a[2]] = t1[b[1]][b[2]]
    /\ t2[b[1]][b[2]] = t1[a[1]][a[2]]
    /\ \A c \in Cells \ {a, b} : t2[c[1]][c[2]] = t1[c[1]][c[2]]

\* C13: after a move_tile(row, col) that returned true, (row, col) holds the
\* empty tile, the cell that was empty holds what (row, col) held, and every
\* other cell is as before; so it is for every cell of every reachable board
\* for which move_tile returns true.
C13_ExchangesTwoCells ==
    /\ (last.kind = "TilePressed" /\ last.ret) =>
          /\ is_empty(tiles[last.row][last.col])
          /\ \E e \in EmptyCells(prev.tiles) :
                /\ e # lastCell
                /\ ~ is_empty(tiles[e[1]][e[2]])
                /\ ExchangedExactly(prev.tiles, tiles, lastCell, e)
    /\ LET E == EmptyCells(tiles)
       IN  \A c \in Cells :
              LET m == move_tile(puzzle, c[1], c[2])
              IN  m.ret =>
                     /\ is_empty(m.self.tiles[c[1]][c[2]])
                     /\ \E e \in E : e # c /\ ExchangedExactly(tiles, m.self.tiles, c, e)

\* C13 witness: a successful move on a board where the empty cell had four
\* neighbours.
C13_Witness ==
    /\ last.kind = "TilePressed" /\ last.ret
    /\ \E e \in EmptyCells(prev.tiles) :
          /\ e[1] \in 1 .. (GRID_SIZE - 2)
          /\ e[2] \in 1 .. (GRID_SIZE - 2)
    /\ is_empty(tiles[last.row][last.col])

\* C14: in the event loop the tree on screen raises only Shuffle and
\* TilePressed(i, j) with (i, j) a cell of the grid that held a number when
\* view ran; the empty cell raises nothing. No message it raises makes
\* move_tile index outside the grid, and so it was for the message handled
\* last.
C14_ViewRaisesOnlyGridCells ==
    /\ screen = view(puzzle)
    /\ ShuffleMsg \in screen.buttons
    /\ \A msg \in screen.buttons :
          \/ msg = ShuffleMsg
          \/ /\ msg.kind = "TilePressed"
             /\ msg.row \in Idx /\ msg.col \in Idx
             /\ <<msg.row, msg.col>> \notin EmptyCells(tiles)
             /\ ~ move_tile_out_of_bounds(puzzle, msg.row, msg.col)
    /\ \A c \in Cells \ EmptyCells(tiles) : TilePressedMsg(c[1], c[2]) \in screen.buttons
    /\ last.kind = "TilePressed" =>
          /\ lastCell \in Cells \ EmptyCells(prev.tiles)
          /\ ~ move_tile_out_of_bounds(prev, last.row, last.col)

\* C14 witness: a press of a numbered tile that is not next to the empty
\* cell, raised by the tree on screen after a shuffle and a move.
C14_Witness ==
    /\ last.kind = "TilePressed" /\ ~ last.ret
    /\ prev.moves > 0
    /\ prev.tiles # CanonicalLayout
    /\ TilePressedMsg(last.row, last.col) \in screen.buttons

\* C15: the status line on screen is the solved text exactly when the board
\* is the canonical layout (is_solved is true), and otherwise shows the
\* counter; it is the solved text at startup, and view left the puzzle as
\* it was.
C15_StatusLine ==
    /\ screen.status = IF tiles = CanonicalLayout
                       THEN << "Puzzle Solved!" >>
                       ELSE << "Moves: ", moves >>
    /\ (screen.status = << "Puzzle Solved!" >>) <=> is_solved(puzzle)
    /\ last.kind = "none" => screen.status = << "Puzzle Solved!" >>

\* C15 witness: a move solved the board and the solved text is on screen,
\* after the counter had been on screen.
C15_Witness ==
    /\ last.kind = "TilePressed" /\ last.ret
    /\ view(prev).status = << "Moves: ", prev.moves >>
    /\ prev.moves > 0
    /\ screen.status = << "Puzzle Solved!" >>

\* C15 witness of a shuffle that left the canonical layout, with the solved
\* text on screen.
C15_ShuffleWitness ==
    /\ last.kind = "Shuffle"
    /\ ~ is_solved(prev)
    /\ screen.status = << "Puzzle Solved!" >>

\* The empty cells' row + column, of grid t (one empty cell: its row + column).
EmptyCoordinateSums(t) == { e[1] + e[2] : e \in EmptyCells(t) }

\* C16: in every reachable state the row and the column of the empty cell
\* and the move counter add up to an even number (as 2 * (N - 1) is); right
\* after a shuffle the row and column of the empty cell add up to an even
\* number, and the counter is even whenever is_solved is true.
C16_Parity ==
    /\ \A x \in EmptyCoordinateSums(tiles) : (x + moves) % 2 = (2 * (GRID_SIZE - 1)) % 2
    /\ last.kind = "Shuffle" => \A x \in EmptyCoordinateSums(tiles) : x % 2 = 0
    /\ is_solved(puzzle) => moves % 2 = 0

\* C16 witness: a shuffle left the empty cell away from the last cell, on a
\* cell whose row and column add up to an even number.
C16_Witness ==
    /\ last.kind = "Shuffle"
    /\ \E e \in EmptyCells(tiles) :
          e # <<GRID_SIZE - 1, GRID_SIZE - 1>> /\ (e[1] + e[2]) % 2 = 0

\* C16 witness of an odd counter: a move after a shuffle left the counter
\* odd and the empty cell on a cell whose row and column add up to an odd
\* number.
C16_OddWitness ==
    /\ last.kind = "TilePressed" /\ last.ret
    /\ moves % 2 = 1
    /\ \E e \in EmptyCells(tiles) : (e[1] + e[2]) % 2 = 1

\* The sequences of draws of the last FreeDraws iterations.
DrawSeqs == [1 .. FreeDraws -> 0 .. 3]

\* The puzzles shuffle leaves from the default puzzle, over the sequences of
\* draws.
ShuffleDrawnFromDefault ==
    { r[1] : r \in { shuffle_drawn(Puzzle_default, draws) : draws \in DrawSeqs } \ {<< >>} }

\* C17: with the same draws, shuffle leaves the same puzzle from the state
\* after a move and from the state before it, two states that differ in
\* board and counter; the set of puzzles shuffle can leave is the same from these two
\* and from the default puzzle, and is what the draws give.
C17_ShuffleForgetsState ==
    /\ (last.kind = "TilePressed" /\ last.ret) =>
          \A draws \in DrawSeqs : shuffle_drawn(puzzle, draws) = shuffle_drawn(prev, draws)
    /\ shuffle(puzzle) = shuffle(prev)
    /\ shuffle(puzzle) = shuffle(Puzzle_default)
    /\ shuffle(puzzle) = ShuffleDrawnFromDefault
    /\ last.kind = "Shuffle" => puzzle \in shuffle(Puzzle_default)

\* C17 witness: two shuffles in a row, the second from a board that is not
\* solved, and the state is what shuffle leaves from the state before.
C17_Witness ==
    /\ last.kind = "Shuffle"
    /\ prev.tiles # CanonicalLayout
    /\ prev.moves > 0
    /\ puzzle \in shuffle(prev)
    /\ \E draws \in DrawSeqs : shuffle_drawn(prev, draws) = << puzzle >>

====
